---------------------------- MODULE Spec2Model ----------------------------
(***************************************************************************)
(* A model of the gateway of slickstream/brd: the Server class (websocket  *)
(* registry, liveness monitor, message router, delivery, HTTP dispatcher)  *)
(* and the Google account-linking handlers of GoogleProvider.              *)
(***************************************************************************)
EXTENDS Integers, Sequences, FiniteSets, TLC

\* ------------------------------------------------------------------ bounds
\* Half of client.pingPongInterval, in clock units (the period is 2 * HalfInterval).
HalfInterval == 1
\* The clock stops advancing here.
MaxTime == 6
\* Units of work (handler invocations) that may be suspended at one time.
MaxInFlight == 1
\* Entries the registry may hold over all users (registered plus being opened).
MaxSockets == 2
\* Ids in the serviceIds parameter of an auth-request.
MaxIds == 2
\* Messages of one connection whose handling may be suspended at one time.
MaxPipelined == 2

\* ------------------------------------------------------------- value sets
Conns == {"c1", "c2"}
Users == {"u1", "u2"}
NoUser == "none"
NoConn == "none"
None == "none"

\* The wire payloads a client may send (text frames), besides "__pong__".
Payloads == {"open:u1", "open:u2", "open:", "card:gmail", "app", "notype", "__ping__"}
OpenPayloads == {"open:u1", "open:u2"}

\* ------------------------------------------------------------- variables
VARIABLES
  now,                 \* clock.now()
  prettyConfig,        \* config 'debug.messages.pretty'
  wsState,             \* per socket: "none", "open", "closing", "closed"
  lastPong,            \* per socket: the closure variable lastPong
  nextTick,            \* per socket: when the interval timer fires next
  timerOn,             \* per socket: the interval timer is set
  pinged,              \* per socket: a probe is outstanding (history)
  missed,              \* per socket: a probe went unanswered for a period (history)
  monitorClosed,       \* per socket: the monitor called ws.close() (history)
  timedOutRegistered,  \* per socket: it was registered when the monitor closed it (history)
  probed,              \* per socket: a probe was sent to it (history)
  socketUser,          \* userManager: the user bound to a socket
  activeSocketsByUser, \* Server.activeSocketsByUser
  units,               \* the suspended units of work, in start order
  sent,                \* what the last step sent: <<[to, data]>>
  routed,              \* the handlers the last step invoked
  lastCall,            \* the operation the last step ran
  lastDone,            \* the unit of work the last step ended, if any
  http,                \* the HTTP request being handled
  response,            \* the response written to that request
  googleUsers          \* the googleUsers collection: the records upserted

vars == <<now, prettyConfig, wsState, lastPong, nextTick, timerOn, pinged, missed,
          monitorClosed, timedOutRegistered, probed, socketUser, activeSocketsByUser, units,
          sent, routed, lastCall, lastDone, http, response, googleUsers>>

httpVars == <<http, response, googleUsers>>

wsVars == <<now, prettyConfig, wsState, lastPong, nextTick, timerOn, pinged, missed,
            monitorClosed, timedOutRegistered, probed, socketUser, activeSocketsByUser, units, sent, routed,
            lastCall, lastDone>>

timeVars == <<now, lastPong, nextTick, timerOn, pinged, missed, monitorClosed,
             timedOutRegistered, probed>>

\* ------------------------------------------------------------- helpers
Range(s) == {s[i] : i \in 1..Len(s)}

RemoveAt(s, i) == SubSeq(s, 1, i - 1) \o SubSeq(s, i + 1, Len(s))

\* Array.prototype.indexOf: the first index of x in s, 0 when absent.
IndexOf(s, x) ==
  IF x \in Range(s) THEN CHOOSE i \in 1..Len(s) : s[i] = x /\ \A j \in 1..(i - 1) : s[j] # x
  ELSE 0

Occurrences(s, x) == Cardinality({i \in 1..Len(s) : s[i] = x})

\* The number of entries of the registry, over all users.
RegistrySize(reg) ==
  LET RECURSIVE Sum(_)
      Sum(S) == IF S = {} THEN 0
                ELSE LET u == CHOOSE v \in S : TRUE IN Len(reg[u]) + Sum(S \ {u})
  IN Sum(DOMAIN reg)

\* The sockets registered under some user.
Registered == UNION {Range(activeSocketsByUser[u]) : u \in DOMAIN activeSocketsByUser}

EmptyRegistry == [u \in {} |-> <<>>]

pingPongInterval == 2 * HalfInterval

serviceHandlers == <<"gmail", "drive">>

\* JSON.parse of a wire payload, then the fields the router reads.
JSONparse(p) ==
  CASE p = "open:u1" -> [ok |-> TRUE, type |-> "open", userId |-> "u1", serviceId |-> None, accountId |-> None]
    [] p = "open:u2" -> [ok |-> TRUE, type |-> "open", userId |-> "u2", serviceId |-> None, accountId |-> None]
    [] p = "open:" -> [ok |-> TRUE, type |-> "open", userId |-> None, serviceId |-> None, accountId |-> None]
    [] p = "card:gmail" -> [ok |-> TRUE, type |-> "card", userId |-> None, serviceId |-> "gmail", accountId |-> "a1"]
    [] p = "app" -> [ok |-> TRUE, type |-> "app", userId |-> None, serviceId |-> None, accountId |-> None]
    [] p = "notype" -> [ok |-> TRUE, type |-> None, userId |-> None, serviceId |-> None, accountId |-> None]
    [] OTHER -> [ok |-> FALSE, type |-> None, userId |-> None, serviceId |-> None, accountId |-> None]

\* The fields of an outgoing message: <<key, value>> pairs.
MessageFields(m) ==
  CASE m = "open-success" -> << <<"type", "open-success">> >>
    [] m = "open-failed" -> << <<"type", "open-failed">>, <<"details.message", "No such user">> >>
    [] OTHER -> << <<"type", m>> >>

\* JSON.stringify(message, null, space): the text as a sequence of tokens; a
\* non-zero space puts every field on a line of its own, indented.
JSONstringify(m, space) ==
  LET f == MessageFields(m)
      RECURSIVE Body(_)
      Body(i) ==
        IF i > Len(f) THEN <<>>
        ELSE (IF space > 0 THEN <<"\n", "indent">> ELSE <<>>)
             \o <<f[i][1], ":">>
             \o (IF space > 0 THEN <<" ">> ELSE <<>>)
             \o <<f[i][2]>>
             \o (IF i < Len(f) THEN <<",">> ELSE <<>>)
             \o Body(i + 1)
  IN <<"{">> \o Body(1) \o (IF space > 0 THEN <<"\n">> ELSE <<>>) \o <<"}">>


\* ------------------------------------------------------ the registry
\* Server.registerClientSocket: push ws on the user's list, creating the list.
registerClientSocket(reg, user, ws) ==
  IF user # NoUser
  THEN IF user \in DOMAIN reg
       THEN [reg EXCEPT ![user] = Append(@, ws)]
       ELSE [u \in DOMAIN reg \cup {user} |-> IF u = user THEN <<ws>> ELSE reg[u]]
  ELSE reg

\* unregisterClientSocket without the deletion of the entry.
unregisterClientSocketSplice(reg, user, ws) ==
  IF user # NoUser /\ user \in DOMAIN reg /\ IndexOf(reg[user], ws) > 0
  THEN [reg EXCEPT ![user] = RemoveAt(@, IndexOf(@, ws))]
  ELSE reg

\* Server.unregisterClientSocket: splice the first occurrence of ws out of the
\* user's list, or delete the entry when the list holds one element.
unregisterClientSocket(reg, user, ws) ==
  IF user # NoUser /\ user \in DOMAIN reg /\ IndexOf(reg[user], ws) > 0
  THEN IF Len(reg[user]) > 1
       THEN [reg EXCEPT ![user] = RemoveAt(@, IndexOf(@, ws))]
       ELSE [u \in DOMAIN reg \ {user} |-> reg[u]]
  ELSE reg

\* MulticastTargets without the lookup by user: every registered socket.
MulticastTargetsAll(reg, user) ==
  LET RECURSIVE Cat(_)
      Cat(S) == IF S = {} THEN <<>>
                ELSE LET u == CHOOSE v \in S : TRUE IN reg[u] \o Cat(S \ {u})
  IN IF user # NoUser THEN Cat(DOMAIN reg) ELSE <<>>

\* The sockets a multicast for `user` sends to, in order.
MulticastTargets(reg, user) ==
  IF user # NoUser /\ user \in DOMAIN reg THEN reg[user] ELSE <<>>

\* The JSON.stringify indentation of a unicast send.
UnicastSpace(pretty) == IF pretty THEN 3 ELSE 0

\* Server.deliverMessage: the sends it makes, in order.
deliverMessage(reg, user, websocket, message, multicast, pretty) ==
  IF multicast
  THEN LET socketList == MulticastTargets(reg, user)
           serialized == JSONstringify(message, 0)
       IN [i \in 1..Len(socketList) |-> [to |-> socketList[i], data |-> serialized]]
  ELSE IF websocket # NoConn
       THEN <<[to |-> websocket, data |-> JSONstringify(message, UnicastSpace(pretty))]>>
       ELSE <<>>

\* PingPongTimeout with >= for >.
PingPongTimeoutInclusive(t, pong) == t - pong >= pingPongInterval

\* The test of the interval callback: the socket is closed as unresponsive.
PingPongTimeout(t, pong) == t - pong > pingPongInterval

\* InitialLastPong with lastPong starting at zero.
InitialLastPongZero(t) == 0

\* The value lastPong is seeded with when a socket is accepted at time t.
InitialLastPong(t) == t + pingPongInterval \div 2

\* RouteAllowed without the test of context.user.
RouteAllowedAlways(user) == TRUE

\* The router's test before a service or application message is handled.
RouteAllowed(user) == user # NoUser

\* The first handler after position k whose serviceId is `serviceId`, 0 if none.
NextHandler(k, serviceId) ==
  LET S == {j \in (k + 1)..Len(serviceHandlers) : serviceHandlers[j] = serviceId}
  IN IF S = {} THEN 0 ELSE CHOOSE j \in S : \A i \in S : j <= i

\* ------------------------------------------------------ records
NoCall == [op |-> "none", ws |-> NoConn, user |-> NoUser, message |-> None,
           multicast |-> FALSE, before |-> EmptyRegistry]

Call(op, ws, user, message) ==
  [op |-> op, ws |-> ws, user |-> user, message |-> message,
   multicast |-> FALSE, before |-> EmptyRegistry]

NoDone == [kind |-> "none", ws |-> NoConn, message |-> None, finished |-> 0, error |-> None]

\* A unit of work that ended: `finished` counts the calls of context.finish.
Done(u, finished, error) ==
  [kind |-> u.kind, ws |-> u.ws, message |-> u.message, finished |-> finished, error |-> error]

NewUnit(kind, ws, message) ==
  [kind |-> kind, ws |-> ws, message |-> message, pc |-> "hook", user |-> NoUser, k |-> 0]

\* The registry entries being added by units suspended in an open.
OpensInFlight == Cardinality({i \in 1..Len(units) : units[i].message \in OpenPayloads})

\* An HTTP request slot: the callback's query parameters, where the request is
\* suspended, the calls of context.finish, the provider calls made, and the
\* steps of the linking attempt in the order they happened.
IdleRequest ==
  [pc |-> "idle", code |-> None, state |-> None, handled |-> FALSE, finished |-> 0,
   error |-> None, exchanges |-> 0, profileId |-> None, steps |-> <<>>,
   query |-> [braidUserId |-> None, callback |-> None, serviceIds |-> <<>>],
   auth |-> [generated |-> FALSE, scopes |-> <<>>, services |-> <<>>]]

NoResponse == [written |-> FALSE, status |-> 0, body |-> <<>>, location |-> <<>>]

Init ==
  /\ now = 0
  /\ prettyConfig \in BOOLEAN
  /\ wsState = [c \in Conns |-> "none"]
  /\ lastPong = [c \in Conns |-> 0]
  /\ nextTick = [c \in Conns |-> 0]
  /\ timerOn = [c \in Conns |-> FALSE]
  /\ pinged = [c \in Conns |-> FALSE]
  /\ missed = [c \in Conns |-> FALSE]
  /\ monitorClosed = [c \in Conns |-> FALSE]
  /\ timedOutRegistered = [c \in Conns |-> FALSE]
  /\ probed = [c \in Conns |-> FALSE]
  /\ socketUser = [c \in Conns |-> NoUser]
  /\ activeSocketsByUser = EmptyRegistry
  /\ units = <<>>
  /\ sent = <<>>
  /\ routed = <<>>
  /\ lastCall = NoCall
  /\ lastDone = NoDone
  /\ http = IdleRequest
  /\ response = NoResponse
  /\ googleUsers = {}

\* ------------------------------------------------------ the socket events
\* app.ws('/d/client', ...): a socket is accepted; lastPong is seeded half a
\* period ahead and the interval timer is set.
Connect(c) ==
  /\ wsState[c] = "none"
  /\ wsState' = [wsState EXCEPT ![c] = "open"]
  /\ lastPong' = [lastPong EXCEPT ![c] = InitialLastPong(now)]
  /\ nextTick' = [nextTick EXCEPT ![c] = now + pingPongInterval]
  /\ timerOn' = [timerOn EXCEPT ![c] = TRUE]
  /\ sent' = <<>>
  /\ routed' = <<>>
  /\ lastCall' = Call("connect", c, NoUser, None)
  /\ UNCHANGED httpVars
  /\ UNCHANGED <<now, prettyConfig, pinged, missed, monitorClosed, timedOutRegistered, probed, socketUser, activeSocketsByUser, units>>
  /\ lastDone' = NoDone

\* ws.on('message') with the payload "__pong__": only lastPong changes.
Pong(c) ==
  /\ wsState[c] \in {"open", "closing"}
  /\ lastPong' = [lastPong EXCEPT ![c] = now]
  /\ pinged' = [pinged EXCEPT ![c] = FALSE]
  /\ sent' = <<>>
  /\ routed' = <<>>
  /\ lastCall' = Call("pong", c, NoUser, "__pong__")
  /\ UNCHANGED httpVars
  /\ UNCHANGED <<now, prettyConfig, wsState, nextTick, timerOn, missed, monitorClosed, timedOutRegistered, probed,
                 socketUser, activeSocketsByUser, units>>
  /\ lastDone' = NoDone

\* ws.on('message') with an empty or non-text payload: a warning, nothing else.
InvalidFrame(c) ==
  /\ wsState[c] \in {"open", "closing"}
  /\ sent' = <<>>
  /\ routed' = <<>>
  /\ lastCall' = Call("invalid-frame", c, NoUser, "")
  /\ UNCHANGED httpVars
  /\ UNCHANGED <<timeVars, prettyConfig, wsState, socketUser,
                 activeSocketsByUser, units>>
  /\ lastDone' = NoDone

\* ws.on('message') with any other text: handleWebsocketMessage starts and runs
\* to its first await (userManager.onWebsocketEvent).
WsMessage(c, p) ==
  /\ wsState[c] \in {"open", "closing"}
  /\ Len(units) < MaxInFlight
  /\ p \in OpenPayloads => RegistrySize(activeSocketsByUser) + OpensInFlight < MaxSockets
  /\ units' = Append(units, NewUnit("ws-message", c, p))
  /\ sent' = <<>>
  /\ routed' = <<>>
  /\ lastCall' = Call("message", c, NoUser, p)
  /\ UNCHANGED httpVars
  /\ UNCHANGED <<timeVars, prettyConfig, wsState, socketUser,
                 activeSocketsByUser>>
  /\ lastDone' = NoDone

\* ws.on('message') while earlier messages are still being handled: the call of
\* handleWebsocketMessage is not awaited, so a further unit of work starts.
WsMessagePipelined(c, p) ==
  /\ wsState[c] \in {"open", "closing"}
  /\ Len(units) < MaxPipelined
  /\ p \in OpenPayloads => RegistrySize(activeSocketsByUser) + OpensInFlight < MaxSockets
  /\ units' = Append(units, NewUnit("ws-message", c, p))
  /\ sent' = <<>>
  /\ routed' = <<>>
  /\ lastCall' = Call("message", c, NoUser, p)
  /\ UNCHANGED httpVars
  /\ UNCHANGED <<timeVars, prettyConfig, wsState, socketUser,
                 activeSocketsByUser>>
  /\ lastDone' = NoDone

\* The interval callback: close the socket on a timeout, else send a probe.
TimerTick(c) ==
  /\ timerOn[c]
  /\ now = nextTick[c]
  /\ nextTick' = [nextTick EXCEPT ![c] = now + pingPongInterval]
  /\ missed' = [missed EXCEPT ![c] = @ \/ pinged[c]]
  /\ IF PingPongTimeout(now, lastPong[c])
     THEN /\ wsState' = [wsState EXCEPT ![c] = IF @ = "open" THEN "closing" ELSE @]
          /\ monitorClosed' = [monitorClosed EXCEPT ![c] = TRUE]
          /\ timedOutRegistered' = [timedOutRegistered EXCEPT ![c] = c \in Registered]
          /\ sent' = <<>>
          /\ UNCHANGED <<pinged, probed>>
     ELSE /\ sent' = <<[to |-> c, data |-> <<"__ping__">>]>>
          /\ pinged' = [pinged EXCEPT ![c] = TRUE]
          /\ probed' = [probed EXCEPT ![c] = TRUE]
          /\ UNCHANGED <<wsState, monitorClosed, timedOutRegistered>>
  /\ routed' = <<>>
  /\ lastCall' = Call("tick", c, NoUser, None)
  /\ UNCHANGED httpVars
  /\ UNCHANGED <<now, prettyConfig, lastPong, timerOn, socketUser,
                 activeSocketsByUser, units>>
  /\ lastDone' = NoDone

\* The clock advances once every timer that is due has fired.
Advance ==
  /\ now < MaxTime
  /\ \A c \in Conns : timerOn[c] => nextTick[c] > now
  /\ now' = now + 1
  /\ sent' = <<>>
  /\ routed' = <<>>
  /\ lastCall' = Call("advance", NoConn, NoUser, None)
  /\ UNCHANGED httpVars
  /\ UNCHANGED <<prettyConfig, wsState, lastPong, nextTick, timerOn, pinged, missed,
                 monitorClosed, timedOutRegistered, probed, socketUser, activeSocketsByUser, units>>
  /\ lastDone' = NoDone

\* ws.on('close'): the timer is cleared and handleWebsocketClose starts and runs
\* to its first await (userManager.onWebsocketEvent).
OnClose(c) ==
  /\ wsState[c] \in {"open", "closing"}
  /\ Len(units) < MaxInFlight
  /\ wsState' = [wsState EXCEPT ![c] = "closed"]
  /\ timerOn' = [timerOn EXCEPT ![c] = FALSE]
  /\ units' = Append(units, NewUnit("ws-close", c, None))
  /\ sent' = <<>>
  /\ routed' = <<>>
  /\ lastCall' = Call("close", c, NoUser, None)
  /\ UNCHANGED httpVars
  /\ UNCHANGED <<now, prettyConfig, lastPong, nextTick, pinged, missed, monitorClosed, timedOutRegistered, probed,
                 socketUser, activeSocketsByUser>>
  /\ lastDone' = NoDone

\* ws.on('close') while messages of the socket are still being handled: the
\* timer is cleared and handleWebsocketClose starts beside them.
OnClosePipelined(c) ==
  /\ wsState[c] \in {"open", "closing"}
  /\ Len(units) < MaxPipelined
  /\ wsState' = [wsState EXCEPT ![c] = "closed"]
  /\ timerOn' = [timerOn EXCEPT ![c] = FALSE]
  /\ units' = Append(units, NewUnit("ws-close", c, None))
  /\ sent' = <<>>
  /\ routed' = <<>>
  /\ lastCall' = Call("close", c, NoUser, None)
  /\ UNCHANGED httpVars
  /\ UNCHANGED <<now, prettyConfig, lastPong, nextTick, pinged, missed, monitorClosed,
                 timedOutRegistered, probed, socketUser, activeSocketsByUser>>
  /\ lastDone' = NoDone

\* ------------------------------------------------------ handleWebsocketMessage
Routed(handler, event, ws, user) ==
  [handler |-> handler, event |-> event, ws |-> ws, user |-> user]

\* userManager.onWebsocketEvent: the context's user is the user bound to the socket.
onWebsocketEvent(ws) == socketUser[ws]

\* handleWebsocketMessage resumes after userManager.onWebsocketEvent: the payload
\* is parsed and classified. A rejection of the hook is outside the try block.
WsMessageAfterHook(i) ==
  LET u == units[i]
      c == u.ws
      user == onWebsocketEvent(c)
      msg == JSONparse(u.message)
      h == NextHandler(0, msg.serviceId)
  IN
  /\ u.kind = "ws-message"
  /\ u.pc = "hook"
  /\ \/ /\ units' = RemoveAt(units, i)
        /\ lastDone' = Done(u, 0, "hook")
        /\ sent' = <<>>
        /\ routed' = <<>>
        /\ lastCall' = Call("hook-fault", c, NoUser, u.message)
     \/ /\ lastCall' = Call("classify", c, user, u.message)
        /\ IF ~msg.ok \/ msg.type = None
           THEN /\ units' = RemoveAt(units, i)
                /\ lastDone' = Done(u, 1, "invalid")
                /\ sent' = <<>>
                /\ routed' = <<>>
           ELSE IF msg.type = "open"
           THEN IF msg.userId # None
                THEN /\ units' = [units EXCEPT ![i].pc = "auth", ![i].user = user]
                     /\ sent' = <<>>
                     /\ routed' = <<>>
                     /\ lastDone' = NoDone
                ELSE /\ units' = RemoveAt(units, i)
                     /\ lastDone' = Done(u, 1, None)
                     /\ sent' = deliverMessage(activeSocketsByUser, user, c, "open-failed",
                                               FALSE, prettyConfig)
                     /\ routed' = <<>>
           ELSE IF msg.serviceId # None /\ msg.accountId # None
           THEN IF RouteAllowed(user) /\ h > 0
                THEN /\ units' = [units EXCEPT ![i].pc = "card", ![i].user = user, ![i].k = h]
                     /\ sent' = <<>>
                     /\ routed' = <<Routed(serviceHandlers[h], "card", c, user)>>
                     /\ lastDone' = NoDone
                ELSE /\ units' = RemoveAt(units, i)
                     /\ lastDone' = Done(u, 1, None)
                     /\ sent' = <<>>
                     /\ routed' = <<>>
           ELSE /\ units' = RemoveAt(units, i)
                /\ lastDone' = Done(u, 1, None)
                /\ sent' = <<>>
                /\ routed' = IF RouteAllowed(user) THEN <<Routed("app", "app", c, user)>>
                             ELSE <<>>
  /\ UNCHANGED httpVars
  /\ UNCHANGED <<timeVars, prettyConfig, wsState, socketUser,
                 activeSocketsByUser>>

\* OpenCompletion with the open-success delivered by multicast.
OpenCompletionMulticast(reg, user, ws, pretty) ==
  IF user # NoUser
  THEN LET reg2 == registerClientSocket(reg, user, ws)
       IN <<reg2, deliverMessage(reg2, user, ws, "open-success", TRUE, pretty)>>
  ELSE <<reg, <<>> >>

\* What the open branch does once userManager.onWebsocketOpenRequest has
\* returned with `user` as the context's user: <<registry, sends>>.
OpenCompletion(reg, user, ws, pretty) ==
  IF user # NoUser
  THEN LET reg2 == registerClientSocket(reg, user, ws)
       IN <<reg2, deliverMessage(reg2, user, ws, "open-success", FALSE, pretty)>>
  ELSE <<reg, <<>> >>

\* handleWebsocketMessage resumes after userManager.onWebsocketOpenRequest, which
\* authenticates the user (binding it to the context and the socket), fails to
\* (no user on the context), or rejects.
WsMessageAfterAuth(i) ==
  LET u == units[i]
      c == u.ws
      userId == JSONparse(u.message).userId
  IN
  /\ u.kind = "ws-message"
  /\ u.pc = "auth"
  /\ units' = RemoveAt(units, i)
  /\ routed' = <<>>
  /\ \/ /\ lastCall' = Call("open-fault", c, u.user, u.message)
        /\ lastDone' = Done(u, 1, "auth")
        /\ sent' = <<>>
        /\ UNCHANGED <<socketUser, activeSocketsByUser>>
     \/ \E user \in {userId, NoUser} :
          LET r == OpenCompletion(activeSocketsByUser, user, c, prettyConfig)
          IN /\ lastCall' = [Call("open-result", c, user, u.message)
                               EXCEPT !.before = activeSocketsByUser]
             /\ lastDone' = Done(u, 1, None)
             /\ socketUser' = IF user # NoUser THEN [socketUser EXCEPT ![c] = user]
                              ELSE socketUser
             /\ activeSocketsByUser' = r[1]
             /\ sent' = r[2]
  /\ UNCHANGED httpVars
  /\ UNCHANGED <<timeVars, prettyConfig, wsState>>

\* handleWebsocketMessage resumes after handler.handleClientCardMessage: the loop
\* goes on to the next matching handler; a rejection ends it in the catch block.
WsMessageAfterCard(i) ==
  LET u == units[i]
      c == u.ws
      h == NextHandler(u.k, JSONparse(u.message).serviceId)
  IN
  /\ u.kind = "ws-message"
  /\ u.pc = "card"
  /\ sent' = <<>>
  /\ \/ /\ lastCall' = Call("card-fault", c, u.user, u.message)
        /\ units' = RemoveAt(units, i)
        /\ lastDone' = Done(u, 1, "handler")
        /\ routed' = <<>>
     \/ /\ lastCall' = Call("card-done", c, u.user, u.message)
        /\ IF h > 0
           THEN /\ units' = [units EXCEPT ![i].k = h]
                /\ routed' = <<Routed(serviceHandlers[h], "card", c, u.user)>>
                /\ lastDone' = NoDone
           ELSE /\ units' = RemoveAt(units, i)
                /\ lastDone' = Done(u, 1, None)
                /\ routed' = <<>>
  /\ UNCHANGED httpVars
  /\ UNCHANGED <<timeVars, prettyConfig, wsState, socketUser,
                 activeSocketsByUser>>

\* ------------------------------------------------------ handleWebsocketClose
\* handleWebsocketClose resumes after userManager.onWebsocketEvent: the socket is
\* unregistered and the first handler is notified. A rejection of the hook is
\* outside the try block.
WsCloseAfterHook(i) ==
  LET u == units[i]
      c == u.ws
      user == onWebsocketEvent(c)
  IN
  /\ u.kind = "ws-close"
  /\ u.pc = "hook"
  /\ sent' = <<>>
  /\ \/ /\ lastCall' = Call("hook-fault", c, NoUser, None)
        /\ units' = RemoveAt(units, i)
        /\ lastDone' = Done(u, 0, "hook")
        /\ routed' = <<>>
        /\ UNCHANGED activeSocketsByUser
     \/ /\ lastCall' = [Call("unregister", c, user, None)
                           EXCEPT !.before = activeSocketsByUser]
        /\ activeSocketsByUser' = unregisterClientSocket(activeSocketsByUser, user, c)
        /\ units' = [units EXCEPT ![i].pc = "notify", ![i].user = user, ![i].k = 1]
        /\ routed' = <<Routed(serviceHandlers[1], "closed", c, user)>>
        /\ lastDone' = NoDone
  /\ UNCHANGED httpVars
  /\ UNCHANGED <<timeVars, prettyConfig, wsState, socketUser>>

\* handleWebsocketClose resumes after handler.handleClientSocketClosed: the next
\* handler is notified; a rejection leaves the loop for the catch block.
WsCloseAfterNotify(i) ==
  LET u == units[i]
      c == u.ws
  IN
  /\ u.kind = "ws-close"
  /\ u.pc = "notify"
  /\ sent' = <<>>
  /\ \/ /\ lastCall' = Call("notify-fault", c, u.user, None)
        /\ units' = RemoveAt(units, i)
        /\ lastDone' = Done(u, 1, "handler")
        /\ routed' = <<>>
     \/ /\ lastCall' = Call("notify-done", c, u.user, None)
        /\ IF u.k < Len(serviceHandlers)
           THEN /\ units' = [units EXCEPT ![i].k = u.k + 1]
                /\ routed' = <<Routed(serviceHandlers[u.k + 1], "closed", c, u.user)>>
                /\ lastDone' = NoDone
           ELSE /\ units' = RemoveAt(units, i)
                /\ lastDone' = Done(u, 1, None)
                /\ routed' = <<>>
  /\ UNCHANGED httpVars
  /\ UNCHANGED <<timeVars, prettyConfig, wsState, socketUser,
                 activeSocketsByUser>>

\* ------------------------------------------------------ delivery and signout
\* A service calls Server.deliverMessage with a context whose user is `user` and
\* whose websocket is `websocket`.
Deliver(user, websocket, message, multicast) ==
  /\ sent' = deliverMessage(activeSocketsByUser, user, websocket, message, multicast,
                            prettyConfig)
  /\ routed' = <<>>
  /\ lastCall' = [op |-> "deliverMessage", ws |-> websocket, user |-> user,
                  message |-> message, multicast |-> multicast,
                  before |-> activeSocketsByUser]
  /\ UNCHANGED httpVars
  /\ UNCHANGED <<timeVars, prettyConfig, wsState, socketUser,
                 activeSocketsByUser, units>>
  /\ lastDone' = NoDone

\* onUserSignedOut closing the first socket of the list only.
onUserSignedOutFirst(reg, userId) ==
  IF userId \in DOMAIN reg
  THEN <<SubSeq(reg[userId], 1, 1), [u \in DOMAIN reg \ {userId} |-> reg[u]]>>
  ELSE <<<<>>, reg>>

\* Server.onUserSignedOut: <<the sockets it closes, the registry it leaves>>.
onUserSignedOut(reg, userId) ==
  IF userId \in DOMAIN reg
  THEN <<reg[userId], [u \in DOMAIN reg \ {userId} |-> reg[u]]>>
  ELSE <<<<>>, reg>>

\* userManager signs a user out and calls Server.onUserSignedOut: every socket
\* of the user is closed and the entry deleted.
SignOut(userId) ==
  LET r == onUserSignedOut(activeSocketsByUser, userId)
  IN
  /\ wsState' = [c \in Conns |-> IF c \in Range(r[1]) /\ wsState[c] = "open"
                                 THEN "closing" ELSE wsState[c]]
  /\ activeSocketsByUser' = r[2]
  /\ sent' = <<>>
  /\ routed' = <<>>
  /\ lastCall' = [op |-> "signout", ws |-> NoConn, user |-> userId, message |-> None,
                  multicast |-> FALSE, before |-> activeSocketsByUser]
  /\ UNCHANGED httpVars
  /\ UNCHANGED <<timeVars, prettyConfig, socketUser, units>>
  /\ lastDone' = NoDone

\* ------------------------------------------------------ the HTTP dispatcher
\* The values of the callback's `code` and `state` query parameters.
Codes == {None, "code1"}
StateStrings == {"absent", "garbage", "null", "empty", "noUser", "noServices", "full"}

\* JSON.parse(stateString), then the fields the callback reads. An absent
\* parameter is undefined, which JSON.parse rejects like any other non-JSON text.
ParseState(s) ==
  CASE s = "null" -> [ok |-> TRUE, isNull |-> TRUE, braidUserId |-> None,
                      hasServices |-> FALSE, services |-> <<>>, clientCallback |-> None]
    [] s = "empty" -> [ok |-> TRUE, isNull |-> FALSE, braidUserId |-> None,
                       hasServices |-> FALSE, services |-> <<>>, clientCallback |-> None]
    [] s = "noUser" -> [ok |-> TRUE, isNull |-> FALSE, braidUserId |-> None,
                        hasServices |-> TRUE, services |-> <<"gmail">>,
                        clientCallback |-> "https://x/cb"]
    [] s = "noServices" -> [ok |-> TRUE, isNull |-> FALSE, braidUserId |-> "u1",
                            hasServices |-> FALSE, services |-> <<>>,
                            clientCallback |-> "https://x/cb"]
    [] s = "full" -> [ok |-> TRUE, isNull |-> FALSE, braidUserId |-> "u1",
                      hasServices |-> TRUE, services |-> <<"gmail">>,
                      clientCallback |-> "https://x/cb"]
    [] OTHER -> [ok |-> FALSE, isNull |-> FALSE, braidUserId |-> None,
                 hasServices |-> FALSE, services |-> <<>>, clientCallback |-> None]

\* new RestServiceResult(json, statusCode, message, redirectUrl)
RestServiceResult(json, statusCode, message, redirectUrl) ==
  [json |-> json, statusCode |-> statusCode, message |-> message,
   redirectUrl |-> redirectUrl]

\* StateIncomplete without the test of state.services.
StateIncompleteNoServices(state) == state.isNull \/ state.braidUserId = None

\* The callback's test of the parsed state: !state || !state.braidUserId || !state.services
StateIncomplete(state) == state.isNull \/ state.braidUserId = None \/ ~state.hasServices

\* ProviderRejects with the error argument of the callback ignored.
ProviderRejectsNever(err) == FALSE

\* The test `if (err)` in the callbacks of getToken and userinfo.get.
ProviderRejects(err) == err # None

\* ClientRedirect without the accountId parameter.
ClientRedirectBare(state, profileId) == <<state.clientCallback>>

\* GoogleProvider.handleServiceAuthCallback up to its first provider call: it
\* returns a result, throws, or goes on to exchange the code.
handleServiceAuthCallback(code, stateString) ==
  LET state == ParseState(stateString)
  IN IF code = None
     THEN [kind |-> "result", error |-> None,
           result |-> RestServiceResult(None, 400, "Auth code is missing", <<>>)]
     ELSE IF ~state.ok
     THEN [kind |-> "throw", error |-> "SyntaxError: Unexpected token",
           result |-> RestServiceResult(None, 0, None, <<>>)]
     ELSE IF StateIncomplete(state)
     THEN [kind |-> "result", error |-> None,
           result |-> RestServiceResult(None, 400, "State information is missing", <<>>)]
     ELSE [kind |-> "pending", error |-> None,
           result |-> RestServiceResult(None, 0, None, <<>>)]

\* handleHttpRequest's mapping of a handler's result to the response.
WriteResult(result) ==
  IF result.redirectUrl # <<>>
  THEN [written |-> TRUE, status |-> 302, body |-> <<>>, location |-> result.redirectUrl]
  ELSE IF result.json # None
  THEN [written |-> TRUE, status |-> 200, body |-> <<result.json>>, location |-> <<>>]
  ELSE [written |-> TRUE,
        status |-> IF result.statusCode # 0 THEN result.statusCode ELSE 200,
        body |-> IF result.message # None THEN <<result.message>> ELSE <<>>,
        location |-> <<>>]

\* Server.sendInternalError, called with err.toString(): the body is the prefix
\* followed by JSON.stringify of that text.
sendInternalError(err) ==
  [written |-> TRUE, status |-> 500,
   body |-> <<"Internal server error: ", "\"", err, "\"">>, location |-> <<>>]

\* utils.appendUrlParam(url, name, value)
appendUrlParam(url, name, value) == <<url, "?", name, "=", value>>

\* The redirect the callback resolves with once the upsert has completed.
ClientRedirect(state, profileId) ==
  appendUrlParam(state.clientCallback, "accountId", profileId)

\* The catch block of handleHttpRequest.
HttpCatch(err) ==
  /\ response' = sendInternalError(err)
  /\ http' = [http EXCEPT !.pc = "done", !.error = err, !.finished = @ + 1]
  /\ UNCHANGED googleUsers

\* A request for the callback route arrives: handleHttpRequest creates the
\* context and awaits initializeHttpContext.
HttpRequest(code, stateString) ==
  /\ http.pc \in {"idle", "done", "hung"}
  /\ http' = [IdleRequest EXCEPT !.pc = "hook", !.code = code, !.state = stateString]
  /\ response' = NoResponse
  /\ UNCHANGED googleUsers
  /\ UNCHANGED wsVars

\* handleHttpRequest resumes after the hydration hook and calls the handler.
HttpAfterHook ==
  LET r == handleServiceAuthCallback(http.code, http.state)
  IN
  /\ http.pc = "hook"
  /\ \/ HttpCatch("Error: session")
     \/ /\ r.kind = "result"
        /\ response' = WriteResult(r.result)
        /\ http' = [http EXCEPT !.pc = "done", !.handled = TRUE, !.finished = @ + 1]
        /\ UNCHANGED googleUsers
     \/ /\ r.kind = "throw"
        /\ response' = sendInternalError(r.error)
        /\ http' = [http EXCEPT !.pc = "done", !.handled = TRUE, !.error = r.error,
                                !.finished = @ + 1]
        /\ UNCHANGED googleUsers
     \/ /\ r.kind = "pending"
        /\ http' = [http EXCEPT !.pc = "token", !.handled = TRUE, !.exchanges = @ + 1,
                                !.steps = Append(@, "exchange")]
        /\ UNCHANGED <<response, googleUsers>>
  /\ UNCHANGED wsVars

\* The callback of oauthClient.getToken: an error rejects the handler's promise,
\* which handleHttpRequest catches; tokens start oauth2.userinfo.get.
HttpAfterToken ==
  /\ http.pc = "token"
  /\ \E err \in {None, "Error: invalid_grant"} :
       LET h == IF err = None THEN http
                ELSE [http EXCEPT !.steps = Append(@, "exchange-failed")]
       IN IF ProviderRejects(err)
          THEN /\ response' = sendInternalError(err)
               /\ http' = [h EXCEPT !.pc = "done", !.error = err, !.finished = @ + 1]
               /\ UNCHANGED googleUsers
          ELSE /\ http' = [h EXCEPT !.pc = "profile", !.steps = Append(@, "profile")]
               /\ UNCHANGED <<response, googleUsers>>
  /\ UNCHANGED wsVars

\* The callback of oauth2.userinfo.get: an error rejects the handler's promise,
\* a profile starts googleUsers.upsertRecord.
HttpAfterProfile ==
  /\ http.pc = "profile"
  /\ \E err \in {None, "Error: profile"} :
       LET h == IF err = None THEN http
                ELSE [http EXCEPT !.steps = Append(@, "profile-failed")]
       IN IF ProviderRejects(err)
          THEN /\ response' = sendInternalError(err)
               /\ http' = [h EXCEPT !.pc = "done", !.error = err, !.finished = @ + 1]
               /\ UNCHANGED googleUsers
          ELSE \E id \in {"g1", "g2"} :
                 /\ http' = [h EXCEPT !.pc = "upsert", !.profileId = id,
                                      !.steps = Append(@, "upsert")]
                 /\ UNCHANGED <<response, googleUsers>>
  /\ UNCHANGED wsVars

\* googleUsers.upsertRecord settles: its then() resolves the handler's promise
\* with the redirect; a rejection has no handler and the promise never settles.
HttpAfterUpsert ==
  LET state == ParseState(http.state)
  IN
  /\ http.pc = "upsert"
  /\ \/ /\ googleUsers' = googleUsers \cup
                            {[braidUserId |-> state.braidUserId,
                              googleUserId |-> http.profileId,
                              serviceIds |-> state.services]}
        /\ response' = WriteResult(RestServiceResult(None, 0, None,
                         ClientRedirect(state, http.profileId)))
        /\ http' = [http EXCEPT !.pc = "done", !.finished = @ + 1,
                                !.steps = @ \o <<"stored", "redirect">>]
     \/ /\ http' = [http EXCEPT !.pc = "hung", !.steps = Append(@, "upsert-failed")]
        /\ UNCHANGED <<response, googleUsers>>
  /\ UNCHANGED wsVars

\* ------------------------------------------------------ the auth-request
\* The ids of the two sub-services (their descriptors' ids).
gmailSearcherId == "mail"
googleDriveSearcherId == "drive"
KnownServiceIds == {gmailSearcherId, googleDriveSearcherId}

\* The scopes every authorization asks for.
BaseScopes == <<"userinfo.email", "userinfo.profile">>

\* searcher.getOauthScopes() of the sub-service with this id.
getOauthScopes(id) ==
  IF id = gmailSearcherId THEN <<"gmail.readonly">>
  ELSE <<"drive.readonly", "drive.metadata.readonly">>

\* The ids a client may write in the serviceIds parameter.
RawIds == {"mail", " Mail", "drive", "unknown-id"}

\* A parameter value as text: the ids with "," between them.
Join(ids) ==
  LET RECURSIVE J(_)
      J(i) == IF i > Len(ids) THEN <<>>
              ELSE (IF i > 1 THEN <<",">> ELSE <<>>) \o <<ids[i]>> \o J(i + 1)
  IN J(1)

ServiceIdStrings == {Join(l) : l \in UNION {[1..n -> RawIds] : n \in 1..MaxIds}}

\* serviceIdString.split(','): the pieces between the commas, "" for an empty one.
split(str) ==
  LET RECURSIVE F(_, _)
      F(i, cur) == IF i > Len(str) THEN <<cur>>
                   ELSE IF str[i] = "," THEN <<cur>> \o F(i + 1, "")
                   ELSE F(i + 1, str[i])
  IN F(1, "")

\* serviceId.trim().toLowerCase()
TrimLower(id) ==
  CASE id \in {"mail", " Mail"} -> "mail"
    [] id = "drive" -> "drive"
    [] OTHER -> id

\* GoogleProvider.addScopes: push each scope that is not in the list yet.
addScopes(scopes, add) ==
  LET RECURSIVE A(_, _)
      A(acc, i) == IF i > Len(add) THEN acc
                   ELSE A(IF add[i] \in Range(acc) THEN acc ELSE Append(acc, add[i]), i + 1)
  IN A(scopes, 1)

\* MissingParam without the test of the callback parameter.
MissingParamNoCallback(braidUserId, callbackUrl, serviceIdString) ==
  IF braidUserId = None THEN "Missing token param"
  ELSE IF serviceIdString = <<>> THEN "Missing serviceIds param"
  ELSE None

\* The three tests that open handleServiceAuthRequest: the message of the first
\* that fails, None when all three parameters are there. An absent parameter
\* and an empty one fail alike; the empty text is <<>>.
MissingParam(braidUserId, callbackUrl, serviceIdString) ==
  IF braidUserId = None THEN "Missing token param"
  ELSE IF callbackUrl = None THEN "Missing callback param"
  ELSE IF serviceIdString = <<>> THEN "Missing serviceIds param"
  ELSE None

NoAuth == [generated |-> FALSE, scopes |-> <<>>, services |-> <<>>]

\* The loop over the requested ids: <<scopes, scopedServiceIds>>.
ScopeLoop(serviceIds) ==
  LET RECURSIVE L(_, _, _)
      L(i, scopes, scoped) ==
        IF i > Len(serviceIds) THEN <<scopes, scoped>>
        ELSE IF TrimLower(serviceIds[i]) \in KnownServiceIds
        THEN L(i + 1, addScopes(scopes, getOauthScopes(TrimLower(serviceIds[i]))),
               Append(scoped, serviceIds[i]))
        ELSE L(i + 1, scopes, scoped)
  IN L(1, BaseScopes, <<>>)

\* GoogleProvider.handleServiceAuthRequest: the result, and the authorization
\* URL's scope list and the state token's service list when one is generated.
handleServiceAuthRequest(braidUserId, callbackUrl, serviceIdString) ==
  LET missing == MissingParam(braidUserId, callbackUrl, serviceIdString)
      r == ScopeLoop(split(serviceIdString))
  IN IF missing # None
     THEN [result |-> RestServiceResult(None, 400, missing, <<>>), auth |-> NoAuth]
     ELSE [result |-> RestServiceResult(None, 0, None,
                        <<"authorize", "offline", r[1],
                          [braidUserId |-> braidUserId, services |-> r[2],
                           clientCallback |-> callbackUrl]>>),
           auth |-> [generated |-> TRUE, scopes |-> r[1], services |-> r[2]]]

\* A request for the auth route arrives: handleHttpRequest creates the context
\* and awaits initializeHttpContext.
AuthRequest(braidUserId, callbackUrl, serviceIdString) ==
  /\ http.pc \in {"idle", "done"}
  /\ http' = [IdleRequest EXCEPT !.pc = "hook",
                                 !.query = [braidUserId |-> braidUserId,
                                            callback |-> callbackUrl,
                                            serviceIds |-> serviceIdString]]
  /\ response' = NoResponse
  /\ UNCHANGED googleUsers
  /\ UNCHANGED wsVars

\* handleHttpRequest resumes after the hydration hook and calls
\* handleServiceAuthRequest, which has no await of its own.
AuthAfterHook ==
  LET q == http.query
      r == handleServiceAuthRequest(q.braidUserId, q.callback, q.serviceIds)
  IN
  /\ http.pc = "hook"
  /\ \/ HttpCatch("Error: session")
     \/ /\ response' = WriteResult(r.result)
        /\ http' = [http EXCEPT !.pc = "done", !.handled = TRUE, !.finished = @ + 1,
                                !.auth = r.auth]
        /\ UNCHANGED googleUsers
  /\ UNCHANGED wsVars

\* ------------------------------------------------------ specifications
\* A suspended handleWebsocketMessage or handleWebsocketClose resumes.
UnitStep ==
  \E i \in 1..Len(units) :
    \/ WsMessageAfterHook(i)
    \/ WsMessageAfterAuth(i)
    \/ WsMessageAfterCard(i)
    \/ WsCloseAfterHook(i)
    \/ WsCloseAfterNotify(i)

\* The same, where no service message is sent.
OpenUnitStep ==
  \E i \in 1..Len(units) :
    \/ WsMessageAfterHook(i)
    \/ WsMessageAfterAuth(i)
    \/ WsCloseAfterHook(i)
    \/ WsCloseAfterNotify(i)

\* The message router: sockets, every kind of client message, closes.
Next ==
  \/ \E c \in Conns : Connect(c)
  \/ \E c \in Conns : InvalidFrame(c)
  \/ \E c \in Conns, p \in Payloads : WsMessage(c, p)
  \/ \E c \in Conns : OnClose(c)
  \/ UnitStep

Spec == Init /\ [][Next]_vars

\* The registry and delivery: opens, closes, signout and deliverMessage calls.
NextDelivery ==
  \/ \E c \in Conns : Connect(c)
  \/ \E c \in Conns, p \in OpenPayloads : WsMessage(c, p)
  \/ \E c \in Conns : OnClose(c)
  \/ OpenUnitStep
  \/ \E u \in Users \cup {NoUser} : Deliver(u, NoConn, "card-update", TRUE)
  \/ \E c \in Conns \cup {NoConn} : Deliver(NoUser, c, "card-update", FALSE)
  \/ \E u \in Users : SignOut(u)

DeliverySpec == Init /\ [][NextDelivery]_vars

\* The liveness monitor of one socket, with the clock running.
LiveConns == {"c1"}
LivePayloads == {"open:u1"}

NextLive ==
  \/ \E c \in LiveConns : Connect(c)
  \/ \E c \in LiveConns : Pong(c)
  \/ \E c \in LiveConns : TimerTick(c)
  \/ Advance
  \/ \E c \in LiveConns, p \in LivePayloads : WsMessage(c, p)
  \/ \E c \in LiveConns : OnClose(c)
  \/ OpenUnitStep

LiveSpec == Init /\ [][NextLive]_vars

\* The HTTP dispatcher serving the account-linking callback.
NextHttp ==
  \/ \E code \in Codes, stateString \in StateStrings : HttpRequest(code, stateString)
  \/ HttpAfterHook
  \/ HttpAfterToken
  \/ HttpAfterProfile
  \/ HttpAfterUpsert

HttpSpec == Init /\ [][NextHttp]_vars

\* A suspended handleWebsocketMessage resumes.
MessageUnitStep ==
  \E i \in 1..Len(units) :
    \/ WsMessageAfterHook(i)
    \/ WsMessageAfterAuth(i)
    \/ WsMessageAfterCard(i)

\* One connection whose messages arrive while earlier ones are being handled.
OrderConns == {"c1"}
OrderPayloads == {"open:u1", "card:gmail", "app"}

NextOrder ==
  \/ \E c \in OrderConns : Connect(c)
  \/ \E c \in OrderConns, p \in OrderPayloads : WsMessagePipelined(c, p)
  \/ MessageUnitStep

OrderSpec == Init /\ [][NextOrder]_vars

\* One socket whose close, and whose user's signout, may come while an open of
\* the socket is suspended in its authentication.
RaceConns == {"c1"}
RacePayloads == {"open:u1"}

NextRace ==
  \/ \E c \in RaceConns : Connect(c)
  \/ \E c \in RaceConns, p \in RacePayloads : WsMessagePipelined(c, p)
  \/ \E c \in RaceConns : OnClosePipelined(c)
  \/ OpenUnitStep
  \/ SignOut("u1")
  \/ Deliver("u1", NoConn, "card-update", TRUE)

RaceSpec == Init /\ [][NextRace]_vars

\* The callback where the hydration hook and every external call (exchange,
\* profile fetch, upsert) complete, with a success or a failure.
HttpLiveSpec ==
  /\ Init
  /\ [][NextHttp]_vars
  /\ WF_vars(HttpAfterHook)
  /\ WF_vars(HttpAfterToken)
  /\ WF_vars(HttpAfterProfile)
  /\ WF_vars(HttpAfterUpsert)

\* The HTTP dispatcher serving the auth-request.
NextAuth ==
  \/ \E b \in {None, "u1"}, cb \in {None, "https://x/cb"},
        ids \in ServiceIdStrings \cup {<<>>} : AuthRequest(b, cb, ids)
  \/ AuthAfterHook

AuthSpec == Init /\ [][NextAuth]_vars

\* ------------------------------------------------------ properties
SentTo(c) == Cardinality({i \in 1..Len(sent) : sent[i].to = c})

\* C1: a message other than open is handed to a service handler or to the
\* application-message handling only when a user is bound to the context at
\* classification; with no user bound it is dropped: nothing is sent, no handler runs.
C1_OpenGatesRouting ==
  /\ \A j \in 1..Len(routed) :
       routed[j].event \in {"card", "app"} => routed[j].user # NoUser
  /\ (/\ lastCall.op = "classify"
      /\ JSONparse(lastCall.message).type # "open"
      /\ lastCall.user = NoUser) => (sent = <<>> /\ routed = <<>>)

\* A service message and an application message classified with no user bound.
C1_Witness ==
  /\ lastCall.op = "classify"
  /\ lastCall.message \in {"card:gmail", "app"}
  /\ lastCall.user = NoUser
  /\ lastDone.finished = 1

\* C2: one multicast deliverMessage call sends each socket at most one copy,
\* whatever opens came before.
C2_AtMostOneCopy ==
  (lastCall.op = "deliverMessage" /\ lastCall.multicast) =>
    \A c \in Conns : SentTo(c) <= 1

\* C3: the monitor closes a socket only if some probe went unanswered until
\* the next tick.
C3_ResponsiveNeverClosed ==
  \A c \in Conns : monitorClosed[c] => missed[c]

\* A socket that answered two probes, each before the next tick, and is open.
C3_Witness ==
  \E c \in Conns :
    /\ wsState[c] = "open"
    /\ nextTick[c] >= lastPong[c] + pingPongInterval
    /\ nextTick[c] >= 3 * pingPongInterval
    /\ ~missed[c]
    /\ ~pinged[c]

\* C4: once the close of a registered socket that the monitor closed has been
\* handled, the socket is in no user's list.
C4_MissedIsUnregistered ==
  \A c \in Conns :
    (/\ timedOutRegistered[c]
     /\ lastDone.kind = "ws-close"
     /\ lastDone.ws = c
     /\ lastDone.finished = 1) => c \notin Registered

\* C5: a multicast deliverMessage call sends the one serialized message to
\* exactly the sockets registered for the context's user, nothing when there
\* is no user or no entry, and leaves the registry as it was.
C5_Multicast ==
  (lastCall.op = "deliverMessage" /\ lastCall.multicast) =>
    LET sessions == IF lastCall.user \in DOMAIN activeSocketsByUser
                    THEN Range(activeSocketsByUser[lastCall.user]) ELSE {}
    IN /\ {sent[i].to : i \in 1..Len(sent)} = sessions
       /\ \A i \in 1..Len(sent) : sent[i].data = JSONstringify(lastCall.message, 0)
       /\ activeSocketsByUser = lastCall.before

\* A multicast to a user with one socket while another user has another.
C5_Witness ==
  /\ lastCall.op = "deliverMessage"
  /\ lastCall.multicast
  /\ Len(sent) = 1
  /\ Registered # {sent[1].to}

\* C6: an open with a user id whose authentication leaves no user on the context
\* is answered with open-failed on that socket, and registers nothing.
C6_AuthFailureReplies ==
  (lastCall.op = "open-result" /\ lastCall.user = NoUser) =>
    /\ \E i \in 1..Len(sent) :
         sent[i].to = lastCall.ws /\ "open-failed" \in Range(sent[i].data)
    /\ activeSocketsByUser = lastCall.before

\* C7: an open whose authentication succeeds adds the socket to that user's list
\* and sends one message, open-success, to that socket.
C7_OpenSuccess ==
  (lastCall.op = "open-result" /\ lastCall.user # NoUser) =>
    /\ lastCall.user \in DOMAIN activeSocketsByUser
    /\ lastCall.ws \in Range(activeSocketsByUser[lastCall.user])
    /\ Len(sent) = 1
    /\ sent[1].to = lastCall.ws
    /\ "open-success" \in Range(sent[1].data)

\* An open that succeeded for a user who already had another socket registered.
C7_Witness ==
  /\ lastCall.op = "open-result"
  /\ lastCall.user \in DOMAIN activeSocketsByUser
  /\ \E c \in Range(activeSocketsByUser[lastCall.user]) : c # lastCall.ws

\* C8: a unit of work that has ended called context.finish exactly once.
C8_FinishExactlyOnce ==
  /\ lastDone.kind # "none" => lastDone.finished = 1
  /\ http.pc = "done" => http.finished = 1

\* C9: the body of a 500 response does not carry the text of the error.
C9_GenericBody ==
  response.status = 500 => http.error \notin Range(response.body)

\* C10: a callback that reaches the handler without a code, or with a state that
\* is absent, unparseable or incomplete, gets a 4xx response and exchanges no code.
C10_BadCallbackIsClientError ==
  (/\ http.pc = "done"
   /\ http.handled
   /\ \/ http.code = None
      \/ http.state \in {"absent", "garbage", "null", "empty", "noUser", "noServices"})
  => (response.status \in 400..499 /\ http.exchanges = 0)

\* C11: a callback with a code and a parseable state that lacks the user id or
\* the service list gets a 4xx response; no code is exchanged, no profile is
\* fetched and no record is upserted.
C11_IncompleteStateRejected ==
  (/\ http.pc = "done"
   /\ http.handled
   /\ http.code # None
   /\ http.state \in {"null", "empty", "noUser", "noServices"})
  => /\ response.status \in 400..499
     /\ http.exchanges = 0
     /\ http.steps = <<>>

\* A callback with a code and a state without the service list, answered.
C11_Witness ==
  /\ http.pc = "done"
  /\ http.handled
  /\ http.code = "code1"
  /\ http.state = "noServices"
  /\ response.written

\* C12: once the provider has rejected the exchange or the profile fetch, the
\* request has ended as a failure (a 500 response, no redirect), the code was
\* exchanged once, and no record was upserted.
C12_ProviderErrorPropagates ==
  (\E f \in {"exchange-failed", "profile-failed"} : f \in Range(http.steps)) =>
    /\ http.pc = "done"
    /\ http.finished = 1
    /\ response.status = 500
    /\ response.location = <<>>
    /\ http.exchanges = 1
    /\ {"upsert", "stored", "redirect"} \cap Range(http.steps) = {}

\* A callback whose profile fetch was rejected after the exchange succeeded.
C12_Witness ==
  /\ http.steps = <<"exchange", "profile", "profile-failed">>
  /\ response.written

\* C13: a callback that ends in a redirect exchanged the code, fetched the
\* profile, upserted one record and only then redirected; the record is for the
\* state's user, the fetched account id and the state's services, and the
\* redirect goes to the client callback with accountId=<account id>.
C13_LinkOrder ==
  response.status = 302 =>
    LET state == ParseState(http.state)
    IN /\ http.steps = <<"exchange", "profile", "upsert", "stored", "redirect">>
       /\ http.state = "full"
       /\ [braidUserId |-> state.braidUserId, googleUserId |-> http.profileId,
           serviceIds |-> state.services] \in googleUsers
       /\ response.location =
            <<state.clientCallback, "?", "accountId", "=", http.profileId>>

\* A callback that ended in the redirect for account g2.
C13_Witness ==
  /\ response.status = 302
  /\ http.profileId = "g2"
  /\ http.pc = "done"

\* The scopes of the known sub-services among `ids`, in order, without repeats.
DeclaredScopes(ids) ==
  LET RECURSIVE D(_, _)
      D(i, acc) ==
        IF i > Len(ids) THEN acc
        ELSE D(i + 1,
               IF ids[i] \in KnownServiceIds
               THEN acc \o SelectSeq(getOauthScopes(ids[i]),
                                     LAMBDA x : x \notin Range(acc) /\ x \notin Range(BaseScopes))
               ELSE acc)
  IN D(1, <<>>)

\* C14: an auth-request with all three parameters is answered with a redirect;
\* the services of its state token are known sub-service ids, and its scopes
\* are the base scopes followed by the scopes of those services, without repeats.
C14_UnknownIdsExcluded ==
  (/\ http.pc = "done"
   /\ http.handled
   /\ http.query.braidUserId # None
   /\ http.query.callback # None
   /\ http.query.serviceIds # <<>>)
  => /\ response.status = 302
     /\ http.auth.generated
     /\ Range(http.auth.services) \subseteq KnownServiceIds
     /\ http.auth.scopes = BaseScopes \o DeclaredScopes(http.auth.services)

\* C15: an auth-request without the user id, the callback or the service ids
\* gets a 4xx response that is no redirect; no authorization URL and no state
\* token is generated.
C15_MissingParamRejected ==
  (/\ http.pc = "done"
   /\ http.handled
   /\ \/ http.query.braidUserId = None
      \/ http.query.callback = None
      \/ http.query.serviceIds = <<>>)
  => /\ response.status \in 400..499
     /\ response.location = <<>>
     /\ http.auth = NoAuth

\* An auth-request that had the user id and the service ids but no callback.
C15_Witness ==
  /\ http.pc = "done"
  /\ http.handled
  /\ http.query.braidUserId = "u1"
  /\ http.query.callback = None
  /\ http.query.serviceIds = <<"mail">>
  /\ response.written

\* C16: a signout of a user closes every socket of that user's list and deletes
\* the entry, leaving the other entries as they were; a close handled afterwards
\* for a socket of a user that has no entry changes nothing.
C16_SignoutClosesAll ==
  LET U == lastCall.user
      b == lastCall.before
  IN /\ lastCall.op = "signout" =>
          /\ U \notin DOMAIN activeSocketsByUser
          /\ U \in DOMAIN b => \A c \in Range(b[U]) : wsState[c] \in {"closing", "closed"}
          /\ DOMAIN activeSocketsByUser = DOMAIN b \ {U}
          /\ \A u \in DOMAIN activeSocketsByUser : activeSocketsByUser[u] = b[u]
     /\ (lastCall.op = "unregister" /\ U # NoUser /\ U \notin DOMAIN b) =>
          activeSocketsByUser = b

\* A signout of a user who had two different sockets registered.
C16_Witness ==
  /\ lastCall.op = "signout"
  /\ lastCall.user \in DOMAIN lastCall.before
  /\ Cardinality(Range(lastCall.before[lastCall.user])) = 2

\* C19: no user maps to an empty list; unregistering the only socket of a list
\* deletes the entry, and unregistering a socket that is not in the user's list
\* changes nothing.
C19_NoEmptyEntry ==
  LET U == lastCall.user
      b == lastCall.before
      c == lastCall.ws
  IN /\ \A u \in DOMAIN activeSocketsByUser : Len(activeSocketsByUser[u]) > 0
     /\ lastCall.op = "unregister" =>
          /\ (U \in DOMAIN b /\ b[U] = <<c>>) => U \notin DOMAIN activeSocketsByUser
          /\ (U \notin DOMAIN b \/ c \notin Range(b[U])) => activeSocketsByUser = b

\* The close of a user's only socket has been handled.
C19_Witness ==
  /\ lastCall.op = "unregister"
  /\ lastCall.user \in DOMAIN lastCall.before
  /\ lastCall.before[lastCall.user] = <<lastCall.ws>>

\* C17: the payloads __ping__ and __pong__ never start a unit of work of the
\* message router.
C17_ControlFramesNotRouted ==
  /\ \A i \in 1..Len(units) : units[i].message \notin {"__ping__", "__pong__"}
  /\ lastDone.message \notin {"__ping__", "__pong__"}

\* C18: a unicast deliverMessage call sends the text a multicast of the same
\* message sends.
C18_SameWireShape ==
  (lastCall.op = "deliverMessage" /\ ~lastCall.multicast /\ sent # <<>>) =>
    LET m == deliverMessage([u \in {"u1"} |-> <<lastCall.ws>>], "u1", NoConn,
                            lastCall.message, TRUE, prettyConfig)
    IN sent[1].data = m[1].data

\* C20: a message is not classified while the handling of a message that
\* arrived earlier on the same connection is suspended after its own
\* classification.
C20_ArrivalOrder ==
  [][\A i \in 1..Len(units) :
       (WsMessageAfterHook(i) /\ lastCall'.op = "classify") =>
         \A j \in 1..(i - 1) : units[j].ws = units[i].ws => units[j].pc = "hook"]_vars

\* C21: when the handling of a close ends in the loop over the service handlers,
\* every handler has been given the connection-closed notification, also when
\* the notification of an earlier handler failed.
C21_CloseNotifiesAll ==
  [][\A i \in 1..Len(units) :
       (WsCloseAfterNotify(i) /\ lastDone'.kind = "ws-close") =>
         units[i].k = Len(serviceHandlers)]_vars

\* C22: the monitor closes a socket only after a probe was sent to it at an
\* earlier tick; the first tick after the socket is accepted sends a probe.
C22_ProbedBeforeClosed ==
  \A c \in Conns : monitorClosed[c] => probed[c]

\* The first tick of a socket that has not replied yet: half a period after the
\* seeded lastPong, a probe is sent and the socket stays open.
C22_Witness ==
  \E c \in Conns :
    /\ lastCall.op = "tick"
    /\ lastCall.ws = c
    /\ now > HalfInterval
    /\ now - lastPong[c] = HalfInterval
    /\ probed[c]
    /\ wsState[c] = "open"
    /\ ~monitorClosed[c]

\* C23: when an open completes on a socket whose close has been handled to the
\* end, the socket is in no user's list; and no multicast sends to a socket
\* that is closed and has no unit of work left.
C23_ClosedNotRegistered ==
  \A c \in Conns :
    (/\ wsState[c] = "closed"
     /\ \A i \in 1..Len(units) : units[i].ws # c)
    => /\ (lastCall.op = "open-result" /\ lastCall.ws = c) => c \notin Registered
       /\ (lastCall.op = "deliverMessage" /\ lastCall.multicast) => SentTo(c) = 0

\* C24: a callback request that has started is eventually answered with a
\* response and has finished its context once.
C24_CallbackAnswered ==
  (http.pc = "hook") ~> (http.pc = "done" /\ response.written /\ http.finished = 1)

============================================================================
